---- MODULE Spec2Model ----
(***************************************************************************)
(* Model of the backend proxy (express routes) and of the browser-side     *)
(* SecureAuth helper (assets/api-config.js).                               *)
(*                                                                         *)
(* ProxySpec: one action per POST route; a step handles one whole request  *)
(*            (validation, the provider calls it awaits, the response).    *)
(* Spec:      the SecureAuth singleton of one page; helper calls are       *)
(*            started and resolved in any order (browser event loop), the  *)
(*            responses they get are the ones the proxy routes compute.    *)
(***************************************************************************)
EXTENDS Integers, Sequences, FiniteSets, TLC

VARIABLES
    token,      \* localStorage['sb-access-token'] (Null when absent)
    session,    \* SecureAuth.session
    user,       \* SecureAuth.user
    calls,      \* helper calls awaiting their fetch: slot -> call record
    href,       \* window.location.href, when the helper navigated
    ev,         \* the helper step that was taken last (what page code observes)
    overlap,    \* history: a helper call was started while another was pending
    signedOut,  \* history: signOut returned {error: null}, no sign-in/up since
    signedIn,   \* history: what the last successful signInWithPassword cached
    touched,    \* history: another call wrote helper state since that sign-in
    req,        \* proxy: the request handled last
    resp,       \* proxy: the response sent for it
    ext         \* proxy: the external (provider) calls made while handling it

clientVars == <<token, session, user, calls, href, ev, overlap, signedOut, signedIn, touched>>
proxyVars == <<req, resp, ext>>
vars == <<token, session, user, calls, href, ev, overlap, signedOut, signedIn, touched, req, resp, ext>>

----------------------------------------------------------------------------
(* Bounds *)

\* number of helper calls that can be pending at the same time
MaxPending == 2

----------------------------------------------------------------------------
(* JavaScript values *)

\* null / undefined in a slot that otherwise holds a string
Null == "null"
\* null / undefined in a slot that otherwise holds an object
NullObj == [null |-> TRUE]

\* JSON values of a request body, tagged with their JavaScript type
JUndef == [type |-> "undefined"]
JNull == [type |-> "null"]
JStr(s) == [type |-> "string", value |-> s]
JNum(n) == [type |-> "number", value |-> n]
JArr(items) == [type |-> "array", items |-> items]

\* JavaScript truthiness, as `!x` and `||` use it
Truthy(v) ==
    CASE v.type = "undefined" -> FALSE
      [] v.type = "null" -> FALSE
      [] v.type = "string" -> v.value # ""
      [] v.type = "number" -> v.value # 0
      [] v.type = "array" -> TRUE

IsArray(v) == v.type = "array"

\* const { f } = req.body
Field(body, f) == IF f \in DOMAIN body THEN body[f] ELSE JUndef

\* a string slot of a parsed JSON object (undefined and null read as Null)
Get(obj, f) == IF f \in DOMAIN obj THEN obj[f] ELSE Null
\* an object slot of a parsed JSON object
GetObj(obj, f) == IF f \in DOMAIN obj THEN obj[f] ELSE NullObj

\* a || b on string slots
OrElse(a, b) == IF a # Null /\ a # "" THEN a ELSE b

----------------------------------------------------------------------------
(* The external provider: what its calls can answer *)

Tokens == {"t1", "t2"}
UserOf(t) == IF t = "t1" THEN "u1" ELSE "u2"
Emails == {"a@x", "b@x"}
ProviderMsg == "provider says no"
ExcMsgs == {"ECONNRESET 10.0.0.7", ""}

\* the provider's session object for token t
ProviderSession(t) == [access_token |-> t, refresh_token |-> "r", user |-> UserOf(t)]

Throws == {[kind |-> "throw", message |-> m] : m \in ExcMsgs}
AuthError == [kind |-> "error", message |-> ProviderMsg]

\* supabase.auth.getUser(accessToken): the token's user, or an error
GetUserAnswers(t) == {[kind |-> "ok", user |-> UserOf(t)], AuthError} \cup Throws

\* supabase.auth.signInWithPassword
SignInAnswers == {[kind |-> "ok", session |-> ProviderSession(t), user |-> UserOf(t)] : t \in Tokens}
        \cup {AuthError} \cup Throws

\* supabase.auth.signUp: a session, or none while the email awaits confirmation
SignUpAnswers == SignInAnswers
        \cup {[kind |-> "ok", session |-> NullObj, user |-> UserOf(t)] : t \in Tokens}

\* supabase.auth.signOut, supabase.auth.signInWithOtp
PlainAnswers == {[kind |-> "ok"], AuthError} \cup Throws

\* supabase.auth.signInWithOAuth
Urls == {"https://idp/authorize"}
OAuthAnswers == {[kind |-> "ok", url |-> u] : u \in Urls \cup {Null}} \cup {AuthError} \cup Throws

\* error messages of the data store, as the words `includes` looks through
MsgNoRows == <<"JSON", "object", "requested", "no", "rows", "returned">>
MsgNoColumn == <<"column", "Paid", "is_premium", "does", "not", "exist">>
Includes(msg, w) == \E i \in DOMAIN msg : msg[i] = w

\* from('Paid').select('email, status, is_premium')...single()
\* a row whose flag is NULL has no is_premium entry
RowsWithFlag(email) ==
    {[email |-> email, status |-> "active", is_premium |-> f] : f \in BOOLEAN}
        \cup {[email |-> email, status |-> "active"]}
FirstQueryAnswers(email) ==
    {[kind |-> "row", row |-> r] : r \in RowsWithFlag(email)}
        \cup {[kind |-> "error", message |-> m] : m \in {MsgNoRows, MsgNoColumn, <<>>}}
        \cup {[kind |-> "throw", message |-> "ECONNRESET 10.0.0.7"]}

\* from('Paid').select('email, status')...single()
SecondQueryAnswers(email) ==
    {[kind |-> "row", row |-> [email |-> email, status |-> "active"]],
     [kind |-> "error", message |-> MsgNoRows],
     [kind |-> "throw", message |-> "ECONNRESET 10.0.0.7"]}

\* fetch(AI_FUNCTION_URL) followed by response.json()
ChatAnswers == {[kind |-> "ok", data |-> [success |-> TRUE, reply |-> "hi"]],
                [kind |-> "ok", data |-> [success |-> FALSE, error |-> "model overloaded"]]}
        \cup Throws

----------------------------------------------------------------------------
(* The proxy routes.  A route maps the request body and the answers of the  *)
(* provider calls it awaits to the response it sends and the external calls *)
(* it made: [status, body, ext].                                            *)

Reply(status, body, made) == [status |-> status, body |-> body, ext |-> made]
Made(call, answer) == [call |-> call, answer |-> answer]

\* app.post('/api/auth/session')
RouteSession(body, o) ==
    LET accessToken == Field(body, "accessToken")
        made == <<Made("auth.getUser", o)>>
    IN  IF ~Truthy(accessToken)
        THEN Reply(401, [error |-> "No access token provided"], <<>>)
        ELSE CASE o.kind = "throw" -> Reply(500, [error |-> "Internal server error"], made)
               [] o.kind = "error" -> Reply(401, [error |-> o.message], made)
               [] o.kind = "ok" -> Reply(200, [user |-> o.user], made)

\* member?.is_premium || false
IsPremiumOf(member) ==
    IF member # NullObj /\ "is_premium" \in DOMAIN member THEN member.is_premium ELSE FALSE
\* member?.email
EmailOf(member) == IF member # NullObj THEN member.email ELSE Null
\* the { data, error } a store query resolves to
QueryData(q) == IF q.kind = "row" THEN q.row ELSE NullObj
QueryFailed(q) == q.kind = "error"

\* mutant: every store error is answered 404, the premium-flag one included
RouteMembershipCheckNoFallback(body, q1, q2) ==
    LET email == Field(body, "email")
        first == Made("Paid.select(email,status,is_premium)", q1)
        member == QueryData(q1)
    IN  IF ~Truthy(email)
        THEN Reply(400, [error |-> "Email is required"], <<>>)
        ELSE IF q1.kind = "throw"
        THEN Reply(500, [error |-> "Internal server error"], <<first>>)
        ELSE IF QueryFailed(q1)
        THEN Reply(404, [error |-> "Membership not found", isPremium |-> FALSE,
                         isActive |-> FALSE], <<first>>)
        ELSE Reply(200, [isPremium |-> IsPremiumOf(member),
                         isActive |-> member # NullObj,
                         email |-> EmailOf(member)], <<first>>)

\* app.post('/api/membership/check')
RouteMembershipCheck(body, q1, q2) ==
    LET email == Field(body, "email")
        first == Made("Paid.select(email,status,is_premium)", q1)
        second == Made("Paid.select(email,status)", q2)
        member == QueryData(q1)
        fallbackMember == QueryData(q2)
    IN  IF ~Truthy(email)
        THEN Reply(400, [error |-> "Email is required"], <<>>)
        ELSE IF q1.kind = "throw"
        THEN Reply(500, [error |-> "Internal server error"], <<first>>)
        ELSE IF QueryFailed(q1) /\ ~Includes(q1.message, "is_premium")
        THEN Reply(404, [error |-> "Membership not found", isPremium |-> FALSE,
                         isActive |-> FALSE], <<first>>)
        ELSE IF QueryFailed(q1) /\ Includes(q1.message, "is_premium")
        THEN IF q2.kind = "throw"
             THEN Reply(500, [error |-> "Internal server error"], <<first, second>>)
             ELSE Reply(200, [isPremium |-> IsPremiumOf(fallbackMember),
                              isActive |-> fallbackMember # NullObj,
                              email |-> EmailOf(fallbackMember)], <<first, second>>)
        ELSE Reply(200, [isPremium |-> IsPremiumOf(member),
                         isActive |-> member # NullObj,
                         email |-> EmailOf(member)], <<first>>)

\* app.post('/api/membership/verify-email')
RouteVerifyEmail(body, q) ==
    LET email == Field(body, "email")
        made == <<Made("Paid.select(email,status)", q)>>
        member == QueryData(q)
    IN  IF ~Truthy(email)
        THEN Reply(400, [error |-> "Email is required", hasActiveMembership |-> FALSE], <<>>)
        ELSE IF q.kind = "throw"
        THEN Reply(500, [error |-> "Internal server error", hasActiveMembership |-> FALSE], made)
        ELSE Reply(200, [hasActiveMembership |-> member # NullObj, email |-> EmailOf(member)], made)

\* mutant: only `!messages` is tested, Array.isArray is not
RouteChatAnyTruthy(body, o) ==
    LET messages == Field(body, "messages")
        made == <<Made("fetch(ai-chat)", o)>>
    IN  IF ~Truthy(messages)
        THEN Reply(400, [success |-> FALSE, error |-> "Invalid messages format"], <<>>)
        ELSE IF o.kind = "throw"
        THEN Reply(500, [success |-> FALSE, error |-> "Failed to process AI request"], made)
        ELSE Reply(200, o.data, made)

\* app.post('/api/ai/chat')
RouteChat(body, o) ==
    LET messages == Field(body, "messages")
        made == <<Made("fetch(ai-chat)", o)>>
    IN  IF ~Truthy(messages) \/ ~IsArray(messages)
        THEN Reply(400, [success |-> FALSE, error |-> "Invalid messages format"], <<>>)
        ELSE IF o.kind = "throw"
        THEN Reply(500, [success |-> FALSE, error |-> "Failed to process AI request"], made)
        ELSE Reply(200, o.data, made)

\* app.post('/api/auth/signin')
RouteSignIn(body, o) ==
    LET made == <<Made("auth.signInWithPassword", o)>>
    IN  CASE o.kind = "throw" -> Reply(500, [error |-> "Internal server error"], made)
          [] o.kind = "error" -> Reply(400, [error |-> o.message], made)
          [] o.kind = "ok" -> Reply(200, [session |-> o.session, user |-> o.user], made)

\* app.post('/api/auth/signup')
RouteSignUp(body, o) ==
    LET made == <<Made("auth.signUp", o)>>
    IN  CASE o.kind = "throw" -> Reply(500, [error |-> "Internal server error"], made)
          [] o.kind = "error" -> Reply(400, [error |-> o.message], made)
          [] o.kind = "ok" -> Reply(200, [session |-> o.session, user |-> o.user], made)

\* app.post('/api/auth/signout')
RouteSignOut(body, o) ==
    LET made == <<Made("auth.signOut", o)>>
    IN  CASE o.kind = "throw" -> Reply(500, [error |-> "Internal server error"], made)
          [] o.kind = "error" -> Reply(400, [error |-> o.message], made)
          [] o.kind = "ok" -> Reply(200, [success |-> TRUE], made)

\* app.post('/api/auth/signin-otp')
RouteSignInOtp(body, o) ==
    LET email == Field(body, "email")
        made == <<Made("auth.signInWithOtp", o)>>
    IN  IF ~Truthy(email)
        THEN Reply(400, [error |-> "Email is required"], <<>>)
        ELSE CASE o.kind = "throw" -> Reply(500, [error |-> "Internal server error"], made)
               [] o.kind = "error" -> Reply(400, [error |-> o.message], made)
               [] o.kind = "ok" -> Reply(200, [success |-> TRUE, data |-> [sent |-> TRUE]], made)

\* app.post('/api/auth/signin-oauth')
RouteSignInOAuth(body, o) ==
    LET provider == Field(body, "provider")
        made == <<Made("auth.signInWithOAuth", o)>>
    IN  IF ~Truthy(provider)
        THEN Reply(400, [success |-> FALSE, error |-> "Provider is required"], <<>>)
        ELSE CASE o.kind = "throw" ->
                    Reply(500, [success |-> FALSE,
                                error |-> OrElse(o.message, "Internal server error")], made)
               [] o.kind = "error" -> Reply(400, [success |-> FALSE, error |-> o.message], made)
               [] o.kind = "ok" ->
                    Reply(200, [success |-> TRUE,
                                data |-> [provider |-> provider.value, url |-> o.url]], made)

----------------------------------------------------------------------------
(* Proxy: one step handles one request *)

OtherBody == [other |-> JStr("x")]
SessionBodies == {OtherBody} \cup {[accessToken |-> v] : v \in {JNull, JStr("")} \cup {JStr(t) : t \in Tokens}}
EmailBodies == {OtherBody} \cup {[email |-> v] : v \in {JNull, JStr("")} \cup {JStr(e) : e \in Emails}}
ChatMessages == {JNull, JStr(""), JStr("hello"), JNum(0), JNum(7), JArr(<<>>),
                 JArr(<<[role |-> "user", content |-> "hello"]>>)}
ChatBodies == {OtherBody} \cup {[messages |-> m] : m \in ChatMessages}
        \cup {[messages |-> m, model |-> JStr("m1")] : m \in ChatMessages}
CredentialBodies == {OtherBody} \cup {[email |-> JStr(e), password |-> JStr("pw")] : e \in Emails}
OAuthBodies == {OtherBody, [redirectTo |-> JStr("/home")]}
        \cup {[provider |-> v] : v \in {JNull, JStr(""), JStr("google")}}

\* the token, or the email, a body carries (any, when it carries none)
TokenIn(body) == IF Truthy(Field(body, "accessToken")) THEN body.accessToken.value ELSE "t1"
EmailIn(body) == IF Truthy(Field(body, "email")) THEN body.email.value ELSE "a@x"

Handle(route, body, r) ==
    /\ req' = [route |-> route, body |-> body]
    /\ resp' = [status |-> r.status, body |-> r.body]
    /\ ext' = r.ext

PostSession ==
    /\ \E body \in SessionBodies : \E o \in GetUserAnswers(TokenIn(body)) :
             Handle("/api/auth/session", body, RouteSession(body, o))
    /\ UNCHANGED clientVars

PostMembershipCheck ==
    /\ \E body \in EmailBodies :
             \E q1 \in FirstQueryAnswers(EmailIn(body)), q2 \in SecondQueryAnswers(EmailIn(body)) :
                 Handle("/api/membership/check", body, RouteMembershipCheck(body, q1, q2))
    /\ UNCHANGED clientVars

PostVerifyEmail ==
    /\ \E body \in EmailBodies : \E q \in SecondQueryAnswers(EmailIn(body)) :
             Handle("/api/membership/verify-email", body, RouteVerifyEmail(body, q))
    /\ UNCHANGED clientVars

PostChat ==
    /\ \E body \in ChatBodies, o \in ChatAnswers :
             Handle("/api/ai/chat", body, RouteChat(body, o))
    /\ UNCHANGED clientVars

PostSignIn ==
    /\ \E body \in CredentialBodies, o \in SignInAnswers :
             Handle("/api/auth/signin", body, RouteSignIn(body, o))
    /\ UNCHANGED clientVars

PostSignUp ==
    /\ \E body \in CredentialBodies, o \in SignUpAnswers :
             Handle("/api/auth/signup", body, RouteSignUp(body, o))
    /\ UNCHANGED clientVars

PostSignOut ==
    /\ \E o \in PlainAnswers :
             Handle("/api/auth/signout", OtherBody, RouteSignOut(OtherBody, o))
    /\ UNCHANGED clientVars

PostSignInOtp ==
    /\ \E body \in EmailBodies, o \in PlainAnswers :
             Handle("/api/auth/signin-otp", body, RouteSignInOtp(body, o))
    /\ UNCHANGED clientVars

PostSignInOAuth ==
    /\ \E body \in OAuthBodies, o \in OAuthAnswers :
             Handle("/api/auth/signin-oauth", body, RouteSignInOAuth(body, o))
    /\ UNCHANGED clientVars

ProxyNext ==
    \/ PostSession
    \/ PostMembershipCheck
    \/ PostVerifyEmail
    \/ PostChat
    \/ PostSignIn
    \/ PostSignUp
    \/ PostSignOut
    \/ PostSignInOtp
    \/ PostSignInOAuth

----------------------------------------------------------------------------
(* The client helper *)

\* what fetch() can resolve to for a request: it rejects (the proxy was never
\* reached), or it carries the reply of the route
FetchFailed == [status |-> 0, body |-> NullObj]
Answered(r) == [status |-> r.status, body |-> r.body]

HttpMsg(status) ==
    CASE status = 400 -> "HTTP 400"
      [] status = 401 -> "HTTP 401"
      [] status = 404 -> "HTTP 404"
      [] OTHER -> "HTTP 500"

\* apiRequest: the parsed body, or the Error it throws
ApiRequest(reply) ==
    IF reply.status = 0
    THEN [threw |-> TRUE, error |-> "Failed to fetch", data |-> NullObj]
    ELSE IF reply.status # 200
    THEN [threw |-> TRUE, error |-> OrElse(Get(reply.body, "error"), HttpMsg(reply.status)),
          data |-> NullObj]
    ELSE [threw |-> FALSE, error |-> Null, data |-> reply.body]

\* the helper's state: the persisted token and the two cached fields
State(t, s, u) == [token |-> t, session |-> s, user |-> u]
Outcome(st, ret) == [st |-> st, ret |-> ret]
EmptySession == [session |-> NullObj, user |-> Null]

\* mutant: the cached session is not looked at, every call with a stored
\* token asks the session-check route
GetSessionBeginNoCache(st) == IF st.token = Null THEN EmptySession ELSE NullObj

\* getSession up to its await: the value it returns at once, or NullObj when
\* it goes on to ask the session-check route
GetSessionBegin(st) ==
    IF st.token = Null
    THEN EmptySession
    ELSE IF st.session # NullObj /\ st.user # Null
    THEN [session |-> st.session, user |-> st.user]
    ELSE NullObj

\* getSession after its await; tok is the token read before it
GetSessionEnd(st, tok, reply) ==
    LET r == ApiRequest(reply) IN
    IF r.threw
    THEN Outcome(st, EmptySession)
    ELSE IF Get(r.data, "user") # Null
    THEN LET s == [user |-> r.data.user, access_token |-> tok]
         IN  Outcome(State(st.token, s, r.data.user), [session |-> s, user |-> r.data.user])
    ELSE Outcome(State(Null, st.session, st.user), EmptySession)

\* data.session && data.session.access_token
HasAccessToken(data) ==
    /\ GetObj(data, "session") # NullObj
    /\ Get(data.session, "access_token") # Null
    /\ Get(data.session, "access_token") # ""

\* mutant: the session is cached but localStorage.setItem is left out
SignInWithPasswordEndNoPersist(st, reply) ==
    LET r == ApiRequest(reply) IN
    IF r.threw
    THEN Outcome(st, [data |-> NullObj, error |-> r.error])
    ELSE IF HasAccessToken(r.data)
    THEN Outcome(State(st.token, r.data.session, Get(r.data, "user")),
                 [data |-> r.data, error |-> Null])
    ELSE Outcome(st, [data |-> r.data, error |-> Null])

\* signInWithPassword after its await
SignInWithPasswordEnd(st, reply) ==
    LET r == ApiRequest(reply) IN
    IF r.threw
    THEN Outcome(st, [data |-> NullObj, error |-> r.error])
    ELSE IF HasAccessToken(r.data)
    THEN Outcome(State(r.data.session.access_token, r.data.session, Get(r.data, "user")),
                 [data |-> r.data, error |-> Null])
    ELSE Outcome(st, [data |-> r.data, error |-> Null])

\* mutant: the user is cached although the reply carries no session
SignUpEndCachesUser(st, reply) ==
    LET r == ApiRequest(reply) IN
    IF r.threw
    THEN Outcome(st, [data |-> NullObj, error |-> r.error])
    ELSE IF HasAccessToken(r.data)
    THEN Outcome(State(r.data.session.access_token, r.data.session, Get(r.data, "user")),
                 [data |-> r.data, error |-> Null])
    ELSE Outcome(State(st.token, st.session, Get(r.data, "user")),
                 [data |-> r.data, error |-> Null])

\* signUp after its await
SignUpEnd(st, reply) ==
    LET r == ApiRequest(reply) IN
    IF r.threw
    THEN Outcome(st, [data |-> NullObj, error |-> r.error])
    ELSE IF HasAccessToken(r.data)
    THEN Outcome(State(r.data.session.access_token, r.data.session, Get(r.data, "user")),
                 [data |-> r.data, error |-> Null])
    ELSE Outcome(st, [data |-> r.data, error |-> Null])

\* mutant: local state is cleared whatever the proxy call's outcome
SignOutEndClearsAlways(st, reply) ==
    LET r == ApiRequest(reply) IN
    IF r.threw
    THEN Outcome(State(Null, NullObj, Null), [error |-> r.error])
    ELSE Outcome(State(Null, NullObj, Null), [error |-> Null])

\* mutant: the cache is cleared but localStorage.removeItem is left out
SignOutEndKeepsToken(st, reply) ==
    LET r == ApiRequest(reply) IN
    IF r.threw
    THEN Outcome(st, [error |-> r.error])
    ELSE Outcome(State(st.token, NullObj, Null), [error |-> Null])

\* signOut after its await
SignOutEnd(st, reply) ==
    LET r == ApiRequest(reply) IN
    IF r.threw
    THEN Outcome(st, [error |-> r.error])
    ELSE Outcome(State(Null, NullObj, Null), [error |-> Null])

\* data.success && data.data && data.data.url
HasRedirectUrl(data) ==
    /\ "success" \in DOMAIN data /\ data.success
    /\ GetObj(data, "data") # NullObj
    /\ Get(data.data, "url") # Null
    /\ Get(data.data, "url") # ""

\* mutant: any 2xx reply is returned as success, as signInWithOtp does
SignInWithOAuthEndNoUrlCheck(reply) ==
    LET r == ApiRequest(reply) IN
    IF r.threw
    THEN [nav |-> Null, ret |-> [data |-> NullObj, error |-> r.error]]
    ELSE [nav |-> IF HasRedirectUrl(r.data) THEN r.data.data.url ELSE Null,
          ret |-> [data |-> r.data, error |-> Null]]

\* signInWithOAuth after its await: the page it navigates to (Null: none)
\* and the value it returns
SignInWithOAuthEnd(reply) ==
    LET r == ApiRequest(reply) IN
    IF r.threw
    THEN [nav |-> Null, ret |-> [data |-> NullObj, error |-> r.error]]
    ELSE IF HasRedirectUrl(r.data)
    THEN [nav |-> r.data.data.url, ret |-> [data |-> r.data, error |-> Null]]
    ELSE [nav |-> Null,
          ret |-> [data |-> NullObj,
                   error |-> OrElse(Get(r.data, "error"), "Failed to initiate OAuth sign in")]]

----------------------------------------------------------------------------
(* Client: helper calls on the browser event loop.  A call runs up to its   *)
(* await in one step and from the fetch's result to its return in another.  *)

Slots == 1..MaxPending
Free == {i \in Slots : calls[i] = NullObj}
Busy == {i \in Slots : calls[i] # NullObj}
FirstFree == CHOOSE i \in Free : \A j \in Free : i <= j

NoReply == [status |-> 0, body |-> NullObj]
Event(op, phase, fetch, reply, ret, nav) ==
    [op |-> op, phase |-> phase, fetch |-> fetch, reply |-> reply, ret |-> ret, nav |-> nav]
FetchKind(reply) == IF reply.status = 0 THEN "failed" ELSE "answered"

Here == State(token, session, user)
Becomes(st) ==
    /\ token' = st.token
    /\ session' = st.session
    /\ user' = st.user

\* the requests the helper sends, and what fetch can resolve to for each
SessionReplies(tok) ==
    {FetchFailed} \cup
    {Answered(RouteSession([accessToken |-> JStr(tok)], o)) : o \in GetUserAnswers(tok)}
Credentials == [email |-> JStr("a@x"), password |-> JStr("pw")]
SignInReplies == {FetchFailed} \cup {Answered(RouteSignIn(Credentials, o)) : o \in SignInAnswers}
SignUpReplies == {FetchFailed} \cup {Answered(RouteSignUp(Credentials, o)) : o \in SignUpAnswers}
SignOutReplies == {FetchFailed} \cup {Answered(RouteSignOut(OtherBody, o)) : o \in PlainAnswers}
OAuthBody(provider) ==
    IF provider = Null
    THEN [redirectTo |-> JStr("/home")]
    ELSE [provider |-> JStr(provider), redirectTo |-> JStr("/home")]
OAuthReplies(provider) ==
    {FetchFailed} \cup {Answered(RouteSignInOAuth(OAuthBody(provider), o)) : o \in OAuthAnswers}

\* a call reaches its await: it takes a slot and its request is on the way
Await(op, arg) ==
    /\ Free # {}
    /\ calls' = [calls EXCEPT ![FirstFree] = [op |-> op, arg |-> arg]]
    /\ ev' = Event(op, "call", "pending", NoReply, NullObj, Null)
    /\ overlap' = (overlap \/ Busy # {})

Init ==
    /\ token \in {Null} \cup Tokens
    /\ session = NullObj
    /\ user = Null
    /\ calls = [i \in Slots |-> NullObj]
    /\ href = Null
    /\ ev = Event("none", "none", "none", NoReply, NullObj, Null)
    /\ overlap = FALSE
    /\ signedOut = FALSE
    /\ signedIn = NullObj
    /\ touched = FALSE
    /\ req = NullObj
    /\ resp = NullObj
    /\ ext = <<>>

GetSessionCall ==
    LET now == GetSessionBegin(Here) IN
    /\ IF now # NullObj
       THEN /\ ev' = Event("getSession", "return", "none", NoReply, now, Null)
            /\ UNCHANGED <<calls, overlap>>
       ELSE Await("getSession", token)
    /\ UNCHANGED <<token, session, user, href, signedOut, signedIn, touched>>
    /\ UNCHANGED proxyVars

GetSessionReturn(i) ==
    /\ calls[i] # NullObj /\ calls[i].op = "getSession"
    /\ \E reply \in SessionReplies(calls[i].arg) :
         LET out == GetSessionEnd(Here, calls[i].arg, reply) IN
         /\ Becomes(out.st)
         /\ ev' = Event("getSession", "return", FetchKind(reply), reply, out.ret, Null)
         /\ touched' = (touched \/ (signedIn # NullObj /\ out.st # Here))
    /\ calls' = [calls EXCEPT ![i] = NullObj]
    /\ UNCHANGED <<href, overlap, signedOut, signedIn>>
    /\ UNCHANGED proxyVars

SignInWithPasswordCall ==
    /\ Await("signInWithPassword", Null)
    /\ UNCHANGED <<token, session, user, href, signedOut, signedIn, touched>>
    /\ UNCHANGED proxyVars

SignInWithPasswordReturn(i) ==
    /\ calls[i] # NullObj /\ calls[i].op = "signInWithPassword"
    /\ \E reply \in SignInReplies :
         LET out == SignInWithPasswordEnd(Here, reply)
             cached == out.ret.error = Null /\ HasAccessToken(out.ret.data)
         IN
         /\ Becomes(out.st)
         /\ ev' = Event("signInWithPassword", "return", FetchKind(reply), reply, out.ret, Null)
         /\ signedOut' = IF out.ret.error = Null THEN FALSE ELSE signedOut
         /\ signedIn' = IF cached
                        THEN [session |-> out.ret.data.session, user |-> out.ret.data.user]
                        ELSE signedIn
         /\ touched' = IF cached THEN FALSE ELSE touched
    /\ calls' = [calls EXCEPT ![i] = NullObj]
    /\ UNCHANGED <<href, overlap>>
    /\ UNCHANGED proxyVars

SignUpCall ==
    /\ Await("signUp", Null)
    /\ UNCHANGED <<token, session, user, href, signedOut, signedIn, touched>>
    /\ UNCHANGED proxyVars

SignUpReturn(i) ==
    /\ calls[i] # NullObj /\ calls[i].op = "signUp"
    /\ \E reply \in SignUpReplies :
         LET out == SignUpEnd(Here, reply) IN
         /\ Becomes(out.st)
         /\ ev' = Event("signUp", "return", FetchKind(reply), reply, out.ret, Null)
         /\ signedOut' = IF out.ret.error = Null THEN FALSE ELSE signedOut
         /\ touched' = (touched \/ (signedIn # NullObj /\ out.st # Here))
    /\ calls' = [calls EXCEPT ![i] = NullObj]
    /\ UNCHANGED <<href, overlap, signedIn>>
    /\ UNCHANGED proxyVars

SignOutCall ==
    /\ Await("signOut", Null)
    /\ signedIn' = NullObj
    /\ touched' = FALSE
    /\ UNCHANGED <<token, session, user, href, signedOut>>
    /\ UNCHANGED proxyVars

SignOutReturn(i) ==
    /\ calls[i] # NullObj /\ calls[i].op = "signOut"
    /\ \E reply \in SignOutReplies :
         LET out == SignOutEnd(Here, reply) IN
         /\ Becomes(out.st)
         /\ ev' = Event("signOut", "return", FetchKind(reply), reply, out.ret, Null)
         /\ signedOut' = IF out.ret.error = Null THEN TRUE ELSE signedOut
    /\ signedIn' = NullObj
    /\ touched' = FALSE
    /\ calls' = [calls EXCEPT ![i] = NullObj]
    /\ UNCHANGED <<href, overlap>>
    /\ UNCHANGED proxyVars

SignInWithOAuthCall ==
    /\ \E provider \in {"google", Null} : Await("signInWithOAuth", provider)
    /\ UNCHANGED <<token, session, user, href, signedOut, signedIn, touched>>
    /\ UNCHANGED proxyVars

SignInWithOAuthReturn(i) ==
    /\ calls[i] # NullObj /\ calls[i].op = "signInWithOAuth"
    /\ \E reply \in OAuthReplies(calls[i].arg) :
         LET out == SignInWithOAuthEnd(reply) IN
         /\ href' = IF out.nav # Null THEN out.nav ELSE href
         /\ ev' = Event("signInWithOAuth", "return", FetchKind(reply), reply, out.ret, out.nav)
    /\ calls' = [calls EXCEPT ![i] = NullObj]
    /\ UNCHANGED <<token, session, user, overlap, signedOut, signedIn, touched>>
    /\ UNCHANGED proxyVars

Next ==
    \/ GetSessionCall
    \/ \E i \in Slots : GetSessionReturn(i)
    \/ SignInWithPasswordCall
    \/ \E i \in Slots : SignInWithPasswordReturn(i)
    \/ SignUpCall
    \/ \E i \in Slots : SignUpReturn(i)
    \/ SignOutCall
    \/ \E i \in Slots : SignOutReturn(i)
    \/ SignInWithOAuthCall
    \/ \E i \in Slots : SignInWithOAuthReturn(i)

Spec == Init /\ [][Next]_vars

ProxySpec == Init /\ [][ProxyNext]_vars

----------------------------------------------------------------------------
(* Properties of the proxy routes (ProxySpec) *)

Handled(route) == req # NullObj /\ req.route = route
\* the request body lacks field f (absent, or JSON null)
Lacks(f) == f \notin DOMAIN req.body \/ req.body[f].type = "null"

\* C3: a request that lacks its route's required field gets the documented
\* status (401 for the session check, 400 elsewhere, with success false for
\* OAuth sign-in and chat; chat also when messages is not an array), and no
\* external call is made while it is handled.
C3_MissingFieldNoProviderCall ==
    /\ Handled("/api/auth/session") /\ Lacks("accessToken")
         => resp.status = 401 /\ ext = <<>>
    /\ Handled("/api/membership/check") /\ Lacks("email")
         => resp.status = 400 /\ ext = <<>>
    /\ Handled("/api/membership/verify-email") /\ Lacks("email")
         => resp.status = 400 /\ ext = <<>>
    /\ Handled("/api/auth/signin-otp") /\ Lacks("email")
         => resp.status = 400 /\ ext = <<>>
    /\ Handled("/api/auth/signin-oauth") /\ Lacks("provider")
         => resp.status = 400 /\ resp.body.success = FALSE /\ ext = <<>>
    /\ Handled("/api/ai/chat") /\ (Lacks("messages") \/ req.body.messages.type # "array")
         => resp.status = 400 /\ resp.body.success = FALSE /\ ext = <<>>

\* C3 witness: a chat request whose messages is a non-empty string was
\* answered 400 without an outbound call.
C3_Witness ==
    /\ Handled("/api/ai/chat")
    /\ "messages" \in DOMAIN req.body
    /\ req.body.messages = JStr("hello")
    /\ resp.status = 400
    /\ ext = <<>>

\* C4: membership check with a non-empty email.  (1) the store returns an
\* active row carrying the premium flag: 200 {isPremium: the flag, isActive:
\* true, email}; (2) the store fails and its message does not mention the
\* premium-flag column: 404 with isPremium false and isActive false; (3) the
\* store rejects the premium-flag column: exactly one second query, without
\* that column, and when it answers, 200 with isPremium false and isActive
\* true exactly when it returned a row.
C4_MembershipCheckOutcomes ==
    (Handled("/api/membership/check") /\ ~Lacks("email") /\ req.body.email.value # "") =>
        LET first == ext[1].answer IN
        /\ Len(ext) >= 1
        /\ ext[1].call = "Paid.select(email,status,is_premium)"
        /\ (first.kind = "row" /\ "is_premium" \in DOMAIN first.row) =>
              /\ Len(ext) = 1
              /\ resp = [status |-> 200,
                         body |-> [isPremium |-> first.row.is_premium, isActive |-> TRUE,
                                   email |-> req.body.email.value]]
        /\ (first.kind = "error" /\ \A i \in DOMAIN first.message : first.message[i] # "is_premium") =>
              /\ Len(ext) = 1
              /\ resp.status = 404
              /\ resp.body.isPremium = FALSE /\ resp.body.isActive = FALSE
        /\ (first.kind = "error" /\ \E i \in DOMAIN first.message : first.message[i] = "is_premium") =>
              /\ Len(ext) = 2
              /\ ext[2].call = "Paid.select(email,status)"
              /\ ext[2].answer.kind # "throw" =>
                    /\ resp.status = 200
                    /\ resp.body.isPremium = FALSE
                    /\ resp.body.isActive = (ext[2].answer.kind = "row")

\* C4 witness: the premium-flag column was rejected, the second query found
\* the row, and the route answered 200 with isPremium false, isActive true.
C4_Witness ==
    /\ Handled("/api/membership/check")
    /\ Len(ext) = 2
    /\ ext[1].answer.kind = "error"
    /\ ext[2].answer.kind = "row"
    /\ resp.status = 200
    /\ resp.body.isPremium = FALSE
    /\ resp.body.isActive = TRUE

\* C6: every 500 response carries the route's fixed generic error string
\* ("Failed to process AI request" for chat, "Internal server error" for
\* the other eight routes), never the text of the caught exception.
C6_Generic500 ==
    (req # NullObj /\ resp.status = 500) =>
        resp.body.error = IF req.route = "/api/ai/chat"
                          THEN "Failed to process AI request"
                          ELSE "Internal server error"

----------------------------------------------------------------------------
(* Properties of the client helper (Spec) *)

Returned(op) == ev.op = op /\ ev.phase = "return"
\* the step being taken is the return of a call of op that had awaited its fetch
Returns(op) == ev'.op = op /\ ev'.phase = "return" /\ ev'.fetch # "none"

\* C1: a getSession that asked the session-check route returns the empty
\* session both when the fetch failed at the transport level and when the
\* route answered 401; the transport failure leaves the stored token as it
\* was, the 401 removes it.
C1_SessionCheckFailure ==
    [][ Returns("getSession") =>
          /\ ev'.fetch = "failed" => (token' = token /\ ev'.ret = EmptySession)
          /\ (ev'.fetch = "answered" /\ ev'.reply.status = 401) =>
                (token' = Null /\ ev'.ret = EmptySession) ]_vars

\* C2: signOut changes nothing before its await; when the proxy call
\* succeeded it removes the token, clears both cached fields and returns
\* {error: null}; when the call failed (non-2xx or transport failure) it
\* returns a non-null error and leaves token, session and user untouched.
C2_SignOutClearsOnlyOnSuccess ==
    [][ /\ (ev'.op = "signOut" /\ ev'.phase = "call") => UNCHANGED <<token, session, user>>
        /\ Returns("signOut") =>
             IF ev'.fetch = "answered" /\ ev'.reply.status = 200
             THEN /\ token' = Null /\ session' = NullObj /\ user' = Null
                  /\ ev'.ret = [error |-> Null]
             ELSE /\ ev'.ret.error # Null
                  /\ UNCHANGED <<token, session, user>> ]_vars

\* C2 witness: a signOut whose proxy call failed has returned its error
\* while a token is stored and a session is cached.
C2_Witness ==
    /\ Returned("signOut")
    /\ ev.reply.status # 200
    /\ ev.ret.error # Null
    /\ token # Null /\ session # NullObj /\ user # Null

\* C5 (as claimed): once signInWithPassword has returned a session with an
\* access token, and until a signOut is called, every getSession call returns
\* at once what that sign-in cached, with no request sent.
C5_AnyLaterGetSession ==
    (signedIn # NullObj /\ ev.op = "getSession" /\ ev.fetch \in {"none", "pending"}) =>
        (ev.phase = "return" /\ ev.ret = signedIn)

\* C5 (amended): the same, for the getSession calls made before any other
\* call has changed the helper's state (a sign-up or another sign-in that
\* returned a session, or a session check that was pending when the sign-in
\* returned).
C5_GetSessionAfterSignIn ==
    (signedIn # NullObj /\ ~touched /\ ev.op = "getSession" /\ ev.fetch \in {"none", "pending"}) =>
        (ev.phase = "return" /\ ev.ret = signedIn)

\* C5 witness: a getSession call made after a successful sign-in returned the
\* session and user cached by it, without a request.
C5_Witness ==
    /\ signedIn # NullObj /\ ~touched
    /\ Returned("getSession") /\ ev.fetch = "none"
    /\ ev.ret = signedIn
    /\ ev.ret.session # NullObj

\* C7: signInWithOAuth navigates exactly when the proxy answered 200 with
\* success true and a data.url, and then returns {data, error: null}; a 200
\* answer without a URL gives no navigation and {data: null, error}.
C7_OAuthNavigation ==
    Returned("signInWithOAuth") =>
        LET carriesUrl == /\ ev.reply.status = 200
                          /\ ev.reply.body.success = TRUE
                          /\ ev.reply.body.data.url # Null
        IN  /\ (ev.nav # Null) <=> carriesUrl
            /\ carriesUrl => /\ ev.nav = ev.reply.body.data.url
                             /\ href = ev.nav
                             /\ ev.ret = [data |-> ev.reply.body, error |-> Null]
            /\ (ev.reply.status = 200 /\ ~carriesUrl) =>
                   (ev.ret.data = NullObj /\ ev.ret.error # Null)

\* C7 witness: the proxy answered 200 without a redirect URL; the helper did
\* not navigate and returned an error.
C7_Witness ==
    /\ Returned("signInWithOAuth")
    /\ ev.reply.status = 200
    /\ ev.reply.body.data.url = Null
    /\ ev.nav = Null /\ href = Null
    /\ ev.ret.data = NullObj /\ ev.ret.error # Null

\* the reply carries a session with an access token
CarriesToken(reply) ==
    /\ reply.status = 200
    /\ reply.body.session # NullObj
    /\ reply.body.session.access_token \notin {Null, ""}

\* C8: signInWithPassword and signUp write the token and set the cache
\* exactly when the reply carries a session with an access token; when the
\* proxy call failed they return {data: null, error} with a non-null error
\* and leave token, session and user untouched; data and error are never
\* both non-null.
C8_SignInSignUp ==
    [][ (Returns("signInWithPassword") \/ Returns("signUp")) =>
          /\ IF CarriesToken(ev'.reply)
             THEN /\ token' = ev'.reply.body.session.access_token
                  /\ session' = ev'.reply.body.session
                  /\ user' = ev'.reply.body.user
             ELSE UNCHANGED <<token, session, user>>
          /\ ev'.reply.status # 200 => (ev'.ret.data = NullObj /\ ev'.ret.error # Null)
          /\ ev'.reply.status = 200 => ev'.ret = [data |-> ev'.reply.body, error |-> Null]
          /\ ~(ev'.ret.data # NullObj /\ ev'.ret.error # Null) ]_vars

\* C8 witness: a signUp was answered 200 without a session while another
\* session was stored and cached; nothing was written.
C8_Witness ==
    /\ Returned("signUp")
    /\ ev.reply.status = 200
    /\ ev.reply.body.session = NullObj
    /\ ev.ret.error = Null
    /\ token # Null /\ session # NullObj

\* the cache and the persisted token describe the same session
CacheMatchesToken == session # NullObj => (token # Null /\ token = session.access_token)

C10_NoSessionAfterSignOut ==
    (signedOut /\ ev.op = "getSession") =>
        (ev.phase = "return" /\ ev.ret = EmptySession)

\* C10 (amended): after signOut returned {error: null} and before the next
\* successful sign-in or sign-up, every getSession call that is started
\* returns the empty session at once and sends no request (a session check
\* that was already pending may still return, and cache, a session).
C10_NoSessionForLaterCalls ==
    (signedOut /\ ev.op = "getSession") =>
        (ev.phase = "return" /\ (ev.fetch = "none" => ev.ret = EmptySession))

\* C10 witness: after the sign-out a pending session check has cached a
\* session again, and a getSession call started afterwards still returned
\* the empty session without a request.
C10_Witness ==
    /\ signedOut
    /\ Returned("getSession") /\ ev.fetch = "none"
    /\ ev.ret = EmptySession
    /\ session # NullObj

====
